---------------------------- MODULE Spec2Model ----------------------------
(***************************************************************************)
(* Model of merge_test_iptv.py: fetch the configured playlist sources one  *)
(* after the other, parse each document into (extinf, url) records,        *)
(* remove exact duplicates, probe a sample of the urls on a thread pool,   *)
(* keep what is not found dead, sort, and write the combined playlist.     *)
(*                                                                         *)
(* Text is modelled as a sequence of tokens.  A token is one character     *)
(* (" ", "\n", "#", a letter) or an indivisible piece of text that the     *)
(* code tests for as a whole ("#EXTINF", "#EXTM3U", the skip patterns).    *)
(***************************************************************************)
EXTENDS Integers, Sequences, FiniteSets, TLC

(***************************************************************************)
(* Bounds of the model.                                                    *)
(***************************************************************************)
\* longest document, in lines, drawn for the parser
MaxLines == 5
\* longest record sequence drawn for the duplicate removal
MaxRecs == 4
\* stands for the sample size 50 of main(): scaled down so that unique sets
\* below, between and above once and twice the sample size are all reached
SAMPLE_SIZE == 2
\* stands for MAX_WORKERS = 15, scaled down so that the pool limit is reached
MAX_WORKERS == 2

(***************************************************************************)
(* General helpers on sequences and sets.                                  *)
(***************************************************************************)
Min(S) == CHOOSE x \in S : \A y \in S : x <= y
Max(S) == CHOOSE x \in S : \A y \in S : y <= x
Range(s) == {s[i] : i \in 1..Len(s)}
SeqsUpTo(S, n) == UNION {[1..k -> S] : k \in 0..n}

RECURSIVE Flatten(_)
\* concatenation of a sequence of sequences
Flatten(ss) == IF ss = <<>> THEN <<>> ELSE Head(ss) \o Flatten(Tail(ss))

(***************************************************************************)
(* str methods used by the program, on token sequences.                    *)
(***************************************************************************)
\* characters str.strip() removes
Whitespace == {" ", "\n"}
\* tokens whose first character is '#'
HashTokens == {"#", "#EXTINF", "#EXTM3U"}

\* s.strip()
Strip(s) ==
    LET keep == {i \in 1..Len(s) : s[i] \notin Whitespace}
    IN  IF keep = {} THEN <<>> ELSE SubSeq(s, Min(keep), Max(keep))

RECURSIVE SplitLines(_)
\* s.splitlines(): a line break ends a line, so a trailing break adds no line
SplitLines(s) ==
    IF s = <<>> THEN <<>>
    ELSE LET nl == {i \in 1..Len(s) : s[i] = "\n"}
         IN  IF nl = {} THEN <<s>>
             ELSE <<SubSeq(s, 1, Min(nl) - 1)>>
                      \o SplitLines(SubSeq(s, Min(nl) + 1, Len(s)))

\* line.startswith('#EXTINF')
StartsWithExtinf(line) == line # <<>> /\ line[1] = "#EXTINF"
\* line.startswith('#')
StartsWithHash(line) == line # <<>> /\ line[1] \in HashTokens

(***************************************************************************)
(* parse_m3u(content, source)                                              *)
(***************************************************************************)
\* fault: the scan stops one line early
ScanEndOffByOne(lines) == Len(lines) - 2
\* last index the scan visits: range(len(lines) - 1)
ScanEnd(lines) == Len(lines) - 1

\* fault: the line after a '#EXTINF' line is not tested
AcceptAnyUrlLine(url_line) == TRUE
\* the test on the line after a '#EXTINF' line
AcceptUrlLine(url_line) == url_line # <<>> /\ ~StartsWithHash(url_line)

RECURSIVE ParseLoop(_, _, _)
\* the for loop of parse_m3u from index i (1-based) on
ParseLoop(lines, i, streams) ==
    IF i > ScanEnd(lines) THEN streams
    ELSE LET line == Strip(lines[i])
             url_line == Strip(lines[i + 1])
         IN  IF StartsWithExtinf(line) /\ AcceptUrlLine(url_line)
             THEN ParseLoop(lines, i + 1, Append(streams, <<line, url_line>>))
             ELSE ParseLoop(lines, i + 1, streams)

parse_m3u(text) ==
    LET lines == SplitLines(Strip(text))
    IN  IF lines = <<>> THEN <<>> ELSE ParseLoop(lines, 1, <<>>)


(***************************************************************************)
(* Configuration and the inputs the environment may supply.                *)
(***************************************************************************)
\* the configured list of source urls
sources == <<"ara.m3u", "fra.m3u">>

\* s.join over lines with a line break between them
RECURSIVE JoinLines(_)
JoinLines(ls) ==
    IF ls = <<>> THEN <<>>
    ELSE IF Len(ls) = 1 THEN ls[1]
    ELSE ls[1] \o <<"\n">> \o JoinLines(Tail(ls))

\* lines a served document may contain (parser inputs)
LineSet ==
    { <<>>, <<" ">>,
      <<"#EXTM3U">>, <<"#", "x">>,
      <<"#EXTINF", "a">>, <<" ", "#EXTINF", "b", " ">>,
      <<"u">>, <<" ", "v", " ">> }

\* documents served to the pipeline, as sequences of lines
DocEmpty == <<>>
DocOne ==
    << <<"#EXTM3U">>,
       <<"#EXTINF", "a">>, <<"u">>,
       <<"#EXTINF", "B">>, <<"v">>,
       <<"#EXTINF", "c">>, <<"w", ".ts">> >>
DocTwo ==
    << <<"#EXTINF", "b">>, <<"v">>,
       <<>>,
       <<" ", "#EXTINF", "a">>, <<"u", " ">>,
       <<"#EXTINF", "d">> >>
DocThree ==
    << <<"#", "x">>,
       <<"#EXTINF", "b">>, <<"w", ".ts">>,
       <<"#EXTINF", "A">>, <<"y">> >>
Documents == {DocEmpty, DocOne, DocTwo, DocThree}

\* final status codes of the response to a source fetch
FetchStatuses == {200, 300, 404}
\* exceptions session.get may raise
NetErrors == {"timeout", "ssl", "connection", "error"}

\* what the network may do with a source fetch: a response with a status and
\* a body, or an exception
FetchOutcomes ==
    {r \in [kind : {"response"}, status : FetchStatuses, body : Documents] :
        r.status = 200 \/ r.body = DocTwo}
        \cup [kind : NetErrors, status : {0}, body : {<<>>}]

\* final status codes of the response to a probe
ProbeStatuses == {200, 302, 404}
ProbeOutcomes ==
    [kind : {"response"}, status : ProbeStatuses]
        \cup [kind : NetErrors, status : {0}]

\* urls and final status codes drawn for check_url on its own
ProbeUrls == { <<"u">>, <<"v", "x">>, <<"w", ".ts">>, <<"rtmp://", "x">> }
AllProbeStatuses ==
    {200, 201, 204, 206, 300, 301, 302, 303, 304, 307, 308,
     400, 401, 403, 404, 500, 503}
AllProbeOutcomes ==
    [kind : {"response"}, status : AllProbeStatuses]
        \cup [kind : NetErrors, status : {0}]

(***************************************************************************)
(* check_url(url)                                                          *)
(***************************************************************************)
skip_check_patterns ==
    { "youtube.com", "youtu.be", "twitch.tv", "facebook.com",
      "dailymotion.com", ".m3u8", ".mp4", ".ts", "rtmp://", "rtsp://" }

\* pattern in url
Contains(url, pattern) == \E i \in 1..Len(url) : url[i] = pattern

\* the for loop over skip_check_patterns
MatchesSkipPattern(url) == \E pattern \in skip_check_patterns : Contains(url, pattern)

\* status codes check_url accepts
AcceptedStatuses == {200, 206, 301, 302, 307, 308}

\* fault: ConnectionError is caught before its subclass SSLError
ProbeResultSslAsConnection(net) ==
    \/ net.kind = "response" /\ net.status \in AcceptedStatuses
    \/ net.kind = "error"
\* the try block of check_url, given what the network does with the request
ProbeResult(net) ==
    CASE net.kind = "response"   -> net.status \in AcceptedStatuses
      [] net.kind = "timeout"    -> FALSE
      [] net.kind = "ssl"        -> TRUE
      [] net.kind = "connection" -> FALSE
      [] OTHER                   -> TRUE

\* fault: the skip patterns are not consulted
check_url_NoSkip(url, net) == [result |-> ProbeResult(net), requests |-> 1]
\* the value check_url returns and the number of requests it sends
check_url(url, net) ==
    IF MatchesSkipPattern(url)
    THEN [result |-> TRUE, requests |-> 0]
    ELSE [result |-> ProbeResult(net), requests |-> 1]

(***************************************************************************)
(* fetch_source(url)                                                       *)
(***************************************************************************)
\* response.raise_for_status(): raises on a 4xx or 5xx status
RaisesForStatus(status) == 400 <= status /\ status < 600

FetchSucceeds(out) == out.kind = "response" /\ ~RaisesForStatus(out.status)

\* the list fetch_source returns, given what the network does with the request
fetch_source(out) ==
    IF FetchSucceeds(out) THEN parse_m3u(JoinLines(out.body)) ELSE <<>>

(***************************************************************************)
(* Steps of main()                                                         *)
(***************************************************************************)
\* fault: the key is the url alone
DedupKeyUrl(extinf, url) == url
\* fault: the key is the extinf line alone
DedupKeyExtinf(extinf, url) == extinf
\* step 2: remove exact duplicates, keeping the first of each
DedupKey(extinf, url) == <<extinf, url>>

RECURSIVE DedupLoop(_, _, _)
DedupLoop(rest, seen, unique) ==
    IF rest = <<>> THEN unique
    ELSE LET extinf == Head(rest)[1]
             url == Head(rest)[2]
             key == DedupKey(extinf, url)
         IN  IF key \notin seen
             THEN DedupLoop(Tail(rest), seen \cup {key}, Append(unique, <<extinf, url>>))
             ELSE DedupLoop(Tail(rest), seen, unique)

\* fault: the loop leaves out the last stream
DedupeSkipsLast(records) ==
    DedupLoop(SubSeq(records, 1, Len(records) - 1), {}, <<>>)
Dedupe(records) == DedupLoop(records, {}, <<>>)

\* seq[:n] and seq[-n:] of Python, for 0 <= n <= len(seq)
SliceTo(s, n) == SubSeq(s, 1, n)
SliceFromEnd(s, n) == IF n = 0 THEN s ELSE SubSeq(s, Len(s) - n + 1, Len(s))

\* step 4: the sample of streams to check
SampleSize(unique) == IF SAMPLE_SIZE < Len(unique) THEN SAMPLE_SIZE ELSE Len(unique)
StreamsToCheck(unique) ==
    SliceTo(unique, SampleSize(unique)) \o SliceFromEnd(unique, SampleSize(unique))

\* step 5: the streams that were not in the sample
Unchecked(unique, checked) ==
    SelectSeq(unique, LAMBDA s : s \notin Range(checked))

\* str.lower() of one character
LowerChar(c) ==
    CASE c = "A" -> "a" [] c = "B" -> "b" [] c = "C" -> "c" [] c = "D" -> "d"
      [] OTHER -> c
Lower(s) == [i \in 1..Len(s) |-> LowerChar(s[i])]

\* code point of the first character of a token
Ord(c) ==
    CASE c = "\n" -> 10 [] c = " " -> 32
      [] c \in HashTokens -> 35 [] c = ".ts" -> 46
      [] c = "A" -> 65 [] c = "B" -> 66 [] c = "C" -> 67 [] c = "D" -> 68
      [] c = "a" -> 97 [] c = "b" -> 98 [] c = "c" -> 99 [] c = "d" -> 100
      [] OTHER -> 120

RECURSIVE StrLess(_, _)
\* a < b on str
StrLess(a, b) ==
    IF b = <<>> THEN FALSE
    ELSE IF a = <<>> THEN TRUE
    ELSE IF Ord(a[1]) # Ord(b[1]) THEN Ord(a[1]) < Ord(b[1])
    ELSE StrLess(Tail(a), Tail(b))

\* fault: the key keeps the case of the extinf line
SortKeyRaw(x) == x[1]
\* the sort key of step 6
SortKey(x) == Lower(x[1])

\* position of ss[i] after a stable sort by key: behind every element with
\* a smaller key and every earlier element with an equal key
SortedPosition(ss, i) ==
    1 + Cardinality({j \in 1..Len(ss) :
            \/ StrLess(SortKey(ss[j]), SortKey(ss[i]))
            \/ j < i /\ ~StrLess(SortKey(ss[i]), SortKey(ss[j]))})

\* live_streams.sort(key=lambda x: x[0].lower())
SortStreams(ss) ==
    [k \in 1..Len(ss) |-> ss[CHOOSE i \in 1..Len(ss) : SortedPosition(ss, i) = k]]

RECURSIVE WriteStreamsNoBreak(_)
\* fault: no line break written after the metadata line
WriteStreamsNoBreak(ss) ==
    IF ss = <<>> THEN <<>>
    ELSE << Head(ss)[1], Head(ss)[2] \o <<"\n", "\n">> >>
             \o WriteStreamsNoBreak(Tail(ss))

\* step 7: the strings written to combined.m3u, one per f.write
RECURSIVE WriteStreams(_)
WriteStreams(ss) ==
    IF ss = <<>> THEN <<>>
    ELSE << Head(ss)[1] \o <<"\n">>, Head(ss)[2] \o <<"\n", "\n">> >>
             \o WriteStreams(Tail(ss))

OutputHeader ==
    << <<"#EXTM3U", "\n">>,
       <<"#", " ", "g", "\n">>,
       <<"#", " ", "s", "\n">>,
       <<"#", " ", "t", "\n">>,
       <<"#", " ", "n", "\n", "\n">> >>

WriteOutput(live) == OutputHeader \o WriteStreams(live)

\* step 9: the strings written to all_streams.m3u
RECURSIVE WriteAllStreams(_)
WriteAllStreams(ss) ==
    IF ss = <<>> THEN <<>>
    ELSE << Head(ss)[1] \o <<"\n">> \o Head(ss)[2] \o <<"\n", "\n">> >>
             \o WriteAllStreams(Tail(ss))

\* the value main() returns, which is the exit status of the process
ExitStatus(live) == 0

(***************************************************************************)
(* State                                                                   *)
(***************************************************************************)
VARIABLES
    pc,               \* where main() is
    srcIdx,           \* index in sources of the source being fetched
    fetchLog,         \* source, status (0: no response) and body of each fetch
    document,         \* lines of the body handed to parse_m3u
    streams,          \* what the last fetch_source / parse_m3u returned
    all_streams,
    unique_streams,
    streams_to_check,
    futures,          \* one entry per executor.submit, in submission order
    live_streams,
    dead_count,
    output_file,      \* strings written to combined.m3u
    all_streams_file, \* strings written to all_streams.m3u
    exit_code,
    probe             \* one call of check_url on its own: url, network, outcome

vars ==
    << pc, srcIdx, fetchLog, document, streams, all_streams, unique_streams,
       streams_to_check, futures, live_streams, dead_count, output_file,
       all_streams_file, exit_code, probe >>

\* value of probe while check_url is not looked at on its own
NoProbe ==
    [url |-> <<>>, net |-> [kind |-> "error", status |-> 0],
     result |-> FALSE, requests |-> 0]

\* value of exit_code while main() has not returned
NoExit == -1

\* state at the start of main()
Init ==
    /\ pc = "fetch"
    /\ srcIdx = 1
    /\ fetchLog = <<>>
    /\ document = <<>>
    /\ streams = <<>>
    /\ all_streams = <<>>
    /\ unique_streams = <<>>
    /\ streams_to_check = <<>>
    /\ futures = <<>>
    /\ live_streams = <<>>
    /\ dead_count = 0
    /\ output_file = <<>>
    /\ all_streams_file = <<>>
    /\ exit_code = NoExit
    /\ probe = NoProbe

(***************************************************************************)
(* Step 1: fetch all sources, one after the other.                         *)
(***************************************************************************)
\* fetch_source(source) sends its request
BeginFetch ==
    /\ pc = "fetch"
    /\ pc' = "fetching"
    /\ UNCHANGED << probe, srcIdx, fetchLog, document, streams, all_streams,
                    unique_streams, streams_to_check, futures, live_streams,
                    dead_count, output_file, all_streams_file, exit_code >>

\* fault: the loop over sources is left after its first pass
LastSourceFirst(i) == TRUE
\* the for loop over sources ends with the last configured source
LastSource(i) == i = Len(sources)

\* the request ends; fetch_source returns and main() extends all_streams
EndFetch ==
    /\ pc = "fetching"
    /\ \E out \in FetchOutcomes :
          /\ fetchLog' = Append(fetchLog, [src |-> srcIdx, status |-> out.status,
                                            body |-> out.body])
          /\ document' = IF FetchSucceeds(out) THEN out.body ELSE document
          /\ streams' = fetch_source(out)
          /\ all_streams' = all_streams \o fetch_source(out)
    /\ srcIdx' = srcIdx + 1
    /\ pc' = IF LastSource(srcIdx) THEN "dedup" ELSE "fetch"
    /\ UNCHANGED << probe, unique_streams, streams_to_check, futures, live_streams,
                    dead_count, output_file, all_streams_file, exit_code >>

(***************************************************************************)
(* Steps 2 and 4: remove duplicates, choose the sample.                    *)
(***************************************************************************)
RemoveDuplicates ==
    /\ pc = "dedup"
    /\ unique_streams' = Dedupe(all_streams)
    /\ streams_to_check' = StreamsToCheck(Dedupe(all_streams))
    /\ live_streams' = <<>>
    /\ dead_count' = 0
    /\ futures' = <<>>
    /\ pc' = "submit"
    /\ UNCHANGED << probe, srcIdx, fetchLog, document, streams, all_streams,
                    output_file, all_streams_file, exit_code >>

(***************************************************************************)
(* The thread pool.                                                        *)
(***************************************************************************)
Pending(fs) == {f \in 1..Len(fs) : fs[f].state = "pending"}
Running(fs) == {f \in 1..Len(fs) : fs[f].state = "running"}
\* fault: as_completed yields only the calls that returned True
FinishedLiveOnly(fs) == {f \in 1..Len(fs) : fs[f].state = "finished" /\ fs[f].result}
Finished(fs) == {f \in 1..Len(fs) : fs[f].state = "finished"}
Yielded(fs) == {f \in 1..Len(fs) : fs[f].state = "yielded"}

\* executor.submit(check_url, url) for the next stream of the sample
Submit ==
    /\ pc = "submit"
    /\ Len(futures) < Len(streams_to_check)
    /\ futures' = Append(futures,
                         [stream |-> streams_to_check[Len(futures) + 1],
                          state |-> "pending", result |-> FALSE, requests |-> 0])
    /\ UNCHANGED << probe, pc, srcIdx, fetchLog, document, streams, all_streams,
                    unique_streams, streams_to_check, live_streams, dead_count,
                    output_file, all_streams_file, exit_code >>

\* every stream of the sample is submitted: main() enters as_completed
AwaitResults ==
    /\ pc = "submit"
    /\ Len(futures) = Len(streams_to_check)
    /\ pc' = "collect"
    /\ UNCHANGED << probe, srcIdx, fetchLog, document, streams, all_streams,
                    unique_streams, streams_to_check, futures, live_streams,
                    dead_count, output_file, all_streams_file, exit_code >>

\* fault: the pool runs one call more than max_workers
WorkerLimitPlusOne == MAX_WORKERS + 1
\* ThreadPoolExecutor(max_workers=MAX_WORKERS)
WorkerLimit == MAX_WORKERS

\* a free worker of the pool takes the oldest pending call
StartProbe ==
    /\ pc \in {"submit", "collect"}
    /\ Pending(futures) # {}
    /\ Cardinality(Running(futures)) < WorkerLimit
    /\ futures' = [futures EXCEPT ![Min(Pending(futures))].state = "running"]
    /\ UNCHANGED << probe, pc, srcIdx, fetchLog, document, streams, all_streams,
                    unique_streams, streams_to_check, live_streams, dead_count,
                    output_file, all_streams_file, exit_code >>

\* check_url returns in a worker
FinishProbe ==
    /\ pc \in {"submit", "collect"}
    /\ \E f \in Running(futures) : \E net \in ProbeOutcomes :
          LET r == check_url(futures[f].stream[2], net)
          IN  futures' = [futures EXCEPT ![f].state = "finished",
                                         ![f].result = r.result,
                                         ![f].requests = @ + r.requests]
    /\ UNCHANGED << probe, pc, srcIdx, fetchLog, document, streams, all_streams,
                    unique_streams, streams_to_check, live_streams, dead_count,
                    output_file, all_streams_file, exit_code >>

\* fault: a call that returned False is taken from as_completed but not counted
CollectDropsDead ==
    /\ pc = "collect"
    /\ \E f \in Finished(futures) :
          /\ futures' = [futures EXCEPT ![f].state = "yielded"]
          /\ live_streams' = IF futures[f].result
                              THEN Append(live_streams, futures[f].stream)
                              ELSE live_streams
          /\ dead_count' = dead_count
    /\ UNCHANGED << probe, pc, srcIdx, fetchLog, document, streams, all_streams,
                    unique_streams, streams_to_check, output_file,
                    all_streams_file, exit_code >>

\* one iteration of the as_completed loop in main()
Collect ==
    /\ pc = "collect"
    /\ \E f \in Finished(futures) :
          /\ futures' = [futures EXCEPT ![f].state = "yielded"]
          /\ IF futures[f].result
             THEN /\ live_streams' = Append(live_streams, futures[f].stream)
                  /\ dead_count' = dead_count
             ELSE /\ live_streams' = live_streams
                  /\ dead_count' = dead_count + 1
    /\ UNCHANGED << probe, pc, srcIdx, fetchLog, document, streams, all_streams,
                    unique_streams, streams_to_check, output_file,
                    all_streams_file, exit_code >>

(***************************************************************************)
(* Steps 5 to 9: keep the unchecked streams, sort, write, return.          *)
(***************************************************************************)
Report ==
    /\ pc = "collect"
    /\ Yielded(futures) = 1..Len(futures)
    /\ \E extended \in {live_streams \o Unchecked(unique_streams, streams_to_check)} :
       \E kept \in {SortStreams(extended)} :
           /\ live_streams' = kept
           /\ output_file' = WriteOutput(kept)
           /\ exit_code' = ExitStatus(kept)
    /\ all_streams_file' = << <<"#EXTM3U", "\n">> >> \o WriteAllStreams(unique_streams)
    /\ pc' = "done"
    /\ UNCHANGED << probe, srcIdx, fetchLog, document, streams, all_streams,
                    unique_streams, streams_to_check, futures, dead_count >>

Next ==
    \/ BeginFetch
    \/ EndFetch
    \/ RemoveDuplicates
    \/ Submit
    \/ AwaitResults
    \/ StartProbe
    \/ FinishProbe
    \/ Collect
    \/ Report

Spec == Init /\ [][Next]_vars

\* the main thread and the pool threads keep running, and every request
\* returns, fails or times out (timeout=REQUEST_TIMEOUT, timeout=10)
FairSpec == Spec /\ WF_vars(Next)

(***************************************************************************)
(* parse_m3u on its own: every document of up to MaxLines lines.           *)
(***************************************************************************)
InitParse ==
    /\ pc = "parse"
    /\ document \in SeqsUpTo(LineSet, MaxLines)
    /\ srcIdx = 1
    /\ fetchLog = <<>>
    /\ streams = <<>>
    /\ all_streams = <<>>
    /\ unique_streams = <<>>
    /\ streams_to_check = <<>>
    /\ futures = <<>>
    /\ live_streams = <<>>
    /\ dead_count = 0
    /\ output_file = <<>>
    /\ all_streams_file = <<>>
    /\ exit_code = NoExit
    /\ probe = NoProbe

\* parse_m3u(response.text, url)
ParseDocument ==
    /\ pc = "parse"
    /\ streams' = parse_m3u(JoinLines(document))
    /\ pc' = "parsed"
    /\ UNCHANGED << probe, srcIdx, fetchLog, document, all_streams, unique_streams,
                    streams_to_check, futures, live_streams, dead_count,
                    output_file, all_streams_file, exit_code >>

SpecParse == InitParse /\ [][ParseDocument]_vars

(***************************************************************************)
(* The duplicate removal on its own: every sequence of up to MaxRecs       *)
(* records.                                                                *)
(***************************************************************************)
DedupRecords ==
    { <<m, u>> : m \in { <<"#EXTINF", "a">>, <<"#EXTINF", "b">> },
                 u \in { <<"u">>, <<"v">> } }

InitDedup ==
    /\ pc = "dedup"
    /\ all_streams \in SeqsUpTo(DedupRecords, MaxRecs)
    /\ srcIdx = Len(sources) + 1
    /\ fetchLog = <<>>
    /\ document = <<>>
    /\ streams = <<>>
    /\ unique_streams = <<>>
    /\ streams_to_check = <<>>
    /\ futures = <<>>
    /\ live_streams = <<>>
    /\ dead_count = 0
    /\ output_file = <<>>
    /\ all_streams_file = <<>>
    /\ exit_code = NoExit
    /\ probe = NoProbe

SpecDedup == InitDedup /\ [][RemoveDuplicates]_vars

(***************************************************************************)
(* check_url on its own: every url of ProbeUrls against everything the     *)
(* network may do with the request.                                        *)
(***************************************************************************)
InitProbe ==
    /\ pc = "probe"
    /\ probe \in [url : ProbeUrls, net : AllProbeOutcomes,
                  result : {FALSE}, requests : {0}]
    /\ srcIdx = 1
    /\ fetchLog = <<>>
    /\ document = <<>>
    /\ streams = <<>>
    /\ all_streams = <<>>
    /\ unique_streams = <<>>
    /\ streams_to_check = <<>>
    /\ futures = <<>>
    /\ live_streams = <<>>
    /\ dead_count = 0
    /\ output_file = <<>>
    /\ all_streams_file = <<>>
    /\ exit_code = NoExit

\* check_url(url)
CheckUrl ==
    /\ pc = "probe"
    /\ probe' = [probe EXCEPT
                    !.result = check_url(probe.url, probe.net).result,
                    !.requests = check_url(probe.url, probe.net).requests]
    /\ pc' = "probed"
    /\ UNCHANGED << srcIdx, fetchLog, document, streams, all_streams,
                    unique_streams, streams_to_check, futures, live_streams,
                    dead_count, output_file, all_streams_file, exit_code >>

SpecProbe == InitProbe /\ [][CheckUrl]_vars

(***************************************************************************)
(* Properties                                                              *)
(***************************************************************************)
\* number of positions of s that hold x
Count(s, x) == Cardinality({i \in 1..Len(s) : s[i] = x})

FetchingDone == pc \in {"dedup", "submit", "collect", "done"}
DedupDone == pc \in {"submit", "collect", "done"}

\* the pairs listed in combined.m3u: after the header, one write for the
\* metadata line and one for the endpoint line of each pair
ListedPairs ==
    LET h == Len(OutputHeader)
    IN  [k \in 1..((Len(output_file) - h) \div 2) |->
            << Strip(output_file[h + 2 * k - 1]), Strip(output_file[h + 2 * k]) >>]

\* some probe of the record returned False
ProbedDead(r) ==
    \E f \in 1..Len(futures) : futures[f].stream = r /\ ~futures[f].result

\* C1: at the end of a run the playlist lists each unique record that was
\* not found dead exactly once and nothing else, and the dead count is the
\* number of unique records found dead.
C1_EachKeptRecordListedOnce ==
    pc = "done" =>
        /\ \A r \in Range(unique_streams) :
              Count(ListedPairs, r) = IF ProbedDead(r) THEN 0 ELSE 1
        /\ Range(ListedPairs) \subseteq Range(unique_streams)
        /\ dead_count = Cardinality({r \in Range(unique_streams) : ProbedDead(r)})

\* C2: at the end of a run the number of unique records equals the number
\* of kept records plus the dead count.
C2_CountsConsistent ==
    pc = "done" => Len(unique_streams) = Len(live_streams) + dead_count

\* C3: the run exits with 0 exactly when at least one record is kept.
C3_ExitReflectsKept ==
    pc = "done" => (exit_code = 0 <=> Len(live_streams) >= 1)

\* a fetch that failed in the sense of the Fetcher contract: no response
\* (status 0 in the log), or a response whose status is not 2xx
FailedFetch(entry) == entry.status \notin 200..299

\* C4: a failed fetch (no response or a non-2xx status) does not stop the
\* run: every source is fetched, in order, a failed one contributes no
\* record and the others contribute exactly their parsed records.
C4_FailedFetchContributesNothing ==
    FetchingDone =>
        /\ Len(fetchLog) = Len(sources)
        /\ \A i \in 1..Len(fetchLog) : fetchLog[i].src = i
        /\ all_streams =
              Flatten([i \in 1..Len(fetchLog) |->
                          IF FailedFetch(fetchLog[i]) THEN <<>>
                          ELSE parse_m3u(JoinLines(fetchLog[i].body))])

\* a line that is a metadata line: '#EXTINF' after optional blanks
MetaLine(l) ==
    \E i \in 1..Len(l) : l[i] = "#EXTINF" /\ \A j \in 1..(i - 1) : l[j] = " "
\* a line that is an endpoint line: its first non-blank is not a '#'
EndpointLine(l) ==
    \E i \in 1..Len(l) :
        /\ l[i] \notin {" "} \cup HashTokens
        /\ \A j \in 1..(i - 1) : l[j] = " "
\* a format-header or comment line
HeaderLine(l) == l # <<>> /\ l[1] \in {"#", "#EXTM3U"}

\* lines h+1.. of doc are metadata/endpoint pairs and nothing else
PairsFrom(doc, h) ==
    /\ (Len(doc) - h) % 2 = 0
    /\ \A k \in 1..((Len(doc) - h) \div 2) :
          MetaLine(doc[h + 2 * k - 1]) /\ EndpointLine(doc[h + 2 * k])
\* the records of such a document
PairsOf(doc, h) ==
    [k \in 1..((Len(doc) - h) \div 2) |->
        << Strip(doc[h + 2 * k - 1]), Strip(doc[h + 2 * k]) >>]

\* C5: for a document of K metadata/endpoint pairs, with or without a
\* leading header line, parse_m3u returns the K pairs in source order,
\* each metadata line with the line right after it (both trimmed).
C5_WellFormedParsesToAllPairs ==
    pc = "parsed" =>
        /\ PairsFrom(document, 0) => streams = PairsOf(document, 0)
        /\ (Len(document) >= 1 /\ HeaderLine(document[1]) /\ PairsFrom(document, 1))
              => streams = PairsOf(document, 1)

C5_Witness ==
    /\ pc = "parsed"
    /\ Len(document) = 5
    /\ HeaderLine(document[1])
    /\ PairsFrom(document, 1)
    /\ Len(streams) = 2
    /\ streams[1] # streams[2]

\* positions of the metadata lines that are followed by an endpoint line
PairedMeta(doc) ==
    {i \in 1..(Len(doc) - 1) : MetaLine(doc[i]) /\ EndpointLine(doc[i + 1])}

\* C6: a metadata line whose next line is missing, blank or a '#' line
\* gives no record: there are exactly as many records as metadata lines
\* followed by an endpoint line; every record has a non-empty endpoint
\* that does not start with '#'; a document without lines gives no record.
C6_DanglingMetadataDropped ==
    pc = "parsed" =>
        /\ Len(streams) = Cardinality(PairedMeta(document))
        /\ \A k \in 1..Len(streams) :
              streams[k][2] # <<>> /\ streams[k][2][1] \notin HashTokens
        /\ document = <<>> => streams = <<>>

C6_Witness ==
    /\ pc = "parsed"
    /\ Len(document) = 5
    /\ MetaLine(document[1]) /\ Strip(document[2]) = <<>>
    /\ MetaLine(document[3]) /\ HeaderLine(document[4])
    /\ MetaLine(document[5])
    /\ streams = <<>>

\* positions of all_streams that hold the first occurrence of their record
FirstSeen == {i \in 1..Len(all_streams) : \A j \in 1..(i - 1) : all_streams[j] # all_streams[i]}
\* the k-th smallest element of a set of numbers
Kth(S, k) == CHOOSE i \in S : Cardinality({j \in S : j <= i}) = k

\* C7: the deduplicated sequence holds no record twice, is no longer than
\* the input, and is the input restricted to the first occurrence of each
\* record, in input order.
C7_DedupKeepsFirstOccurrences ==
    DedupDone =>
        /\ \A i, j \in 1..Len(unique_streams) :
              i # j => unique_streams[i] # unique_streams[j]
        /\ Len(unique_streams) <= Len(all_streams)
        /\ Len(unique_streams) = Cardinality(FirstSeen)
        /\ \A k \in 1..Len(unique_streams) :
              unique_streams[k] = all_streams[Kth(FirstSeen, k)]

C7_Witness ==
    /\ DedupDone
    /\ Len(all_streams) = 4
    /\ Len(unique_streams) = 2
    /\ all_streams[1] = all_streams[3]
    /\ all_streams[2] = all_streams[4]

\* C8: removing duplicates from the deduplicated sequence changes nothing.
C8_DedupIdempotent ==
    DedupDone => Dedupe(unique_streams) = unique_streams

C8_Witness ==
    /\ DedupDone
    /\ Len(unique_streams) >= 2
    /\ Len(unique_streams) < Len(all_streams)

\* C9 as stated: no two records of the deduplicated sequence have the same
\* endpoint.
C9_OneRecordPerEndpoint ==
    DedupDone =>
        \A i, j \in 1..Len(unique_streams) :
            i # j => unique_streams[i][2] # unique_streams[j][2]

\* the metadata lines the input pairs with endpoint u
MetadataOf(u) == {r[1] : r \in {q \in Range(all_streams) : q[2] = u}}

\* C9 as amended: the key is the exact (metadata, endpoint) pair, so for
\* each endpoint as many records survive as the input has different
\* metadata lines for it, one per pair.
C9_OneRecordPerPair ==
    DedupDone =>
        \A u \in {r[2] : r \in Range(all_streams)} :
            /\ Cardinality({i \in 1..Len(unique_streams) : unique_streams[i][2] = u})
                  = Cardinality(MetadataOf(u))
            /\ \A m \in MetadataOf(u) : Count(unique_streams, <<m, u>>) = 1

C9_Witness ==
    /\ DedupDone
    /\ Len(all_streams) = 3
    /\ all_streams[1][2] = all_streams[2][2]
    /\ all_streams[1][1] # all_streams[2][1]
    /\ all_streams[3] = all_streams[1]
    /\ Len(unique_streams) = 2

\* the url holds one of the skip patterns
SkipUrl(url) == \E i \in 1..Len(url) : url[i] \in skip_check_patterns

\* C10: a probe of an endpoint that matches a skip pattern sends no
\* request and never returns False, whatever the network does, and every
\* unique record with such an endpoint is in the final kept list.
C10_SkippedNeverRequestedAlwaysKept ==
    /\ \A f \in 1..Len(futures) :
          SkipUrl(futures[f].stream[2]) =>
              /\ futures[f].requests = 0
              /\ futures[f].state \in {"finished", "yielded"} => futures[f].result
    /\ pc = "done" =>
          \A r \in Range(unique_streams) :
              SkipUrl(r[2]) => r \in Range(live_streams)

C10_Witness ==
    /\ pc = "done"
    /\ \E f, g \in 1..Len(futures) :
          /\ SkipUrl(futures[f].stream[2])
          /\ futures[f].stream \in Range(live_streams)
          /\ ~SkipUrl(futures[g].stream[2])
          /\ futures[g].requests = 1
          /\ ~futures[g].result

C12_LiveOnlyIfProbed ==
    pc = "done" =>
        \A r \in Range(live_streams) :
            \/ SkipUrl(r[2])
            \/ \E f \in 1..Len(futures) :
                  /\ futures[f].stream = r
                  /\ futures[f].requests = 1
                  /\ futures[f].result

\* C13: in combined.m3u the pairs follow each other in non-decreasing order
\* of the lower-cased metadata line, every metadata line is followed by the
\* endpoint it was parsed with, and the pairs are the kept records.
C13_PlaylistSortedAndPaired ==
    pc = "done" =>
        /\ \A k \in 1..(Len(ListedPairs) - 1) :
              ~StrLess(Lower(ListedPairs[k + 1][1]), Lower(ListedPairs[k][1]))
        /\ \A k \in 1..Len(ListedPairs) : ListedPairs[k] \in Range(unique_streams)
        /\ Len(output_file) = Len(OutputHeader) + 2 * Len(live_streams)
        /\ ListedPairs = live_streams

C13_Witness ==
    /\ pc = "done"
    /\ \E k \in 1..(Len(ListedPairs) - 1) :
          /\ ListedPairs[k] = << <<"#EXTINF", "a">>, <<"u">> >>
          /\ ListedPairs[k + 1] = << <<"#EXTINF", "B">>, <<"v">> >>

\* the streams whose probe returned True, in submission order
LiveInSubmissionOrder ==
    LET live == SelectSeq(futures, LAMBDA f : f.result)
    IN  [k \in 1..Len(live) |-> live[k].stream]

\* C14: the final kept sequence is the one obtained when the probes
\* complete in submission order, whatever order they completed in: it
\* depends on the documents and the probe outcomes alone.
C14_KeptSequenceDetermined ==
    pc = "done" =>
        live_streams =
            SortStreams(LiveInSubmissionOrder
                            \o Unchecked(unique_streams, streams_to_check))

\* C15: the number of calls of check_url that have started and not
\* returned never exceeds MAX_WORKERS.
C15_InFlightBounded ==
    Cardinality(Running(futures)) <= MAX_WORKERS

C15_Witness ==
    /\ Cardinality(Running(futures)) = MAX_WORKERS
    /\ Pending(futures) # {}

\* C16: the sources are fetched one at a time in configured order (the
\* fetch under way is for the source after the last one logged), and no
\* call of check_url is submitted before every source was fetched and the
\* duplicates were removed.
C16_FetchSequentialBeforeProbing ==
    /\ \A i \in 1..Len(fetchLog) : fetchLog[i].src = i
    /\ pc \in {"fetch", "fetching"} =>
          srcIdx = Len(fetchLog) + 1 /\ srcIdx <= Len(sources)
    /\ futures # <<>> =>
          /\ pc \in {"submit", "collect", "done"}
          /\ Len(fetchLog) = Len(sources)
          /\ Len(unique_streams) >= 1

C16_Witness ==
    /\ Running(futures) # {}
    /\ Len(fetchLog) = Len(sources)
    /\ fetchLog[1].status = 200 /\ fetchLog[2].status = 200
    /\ Len(all_streams) > Len(unique_streams)

\* C17: every run reaches the end of main(): every submitted call of
\* check_url returns, its result is taken by the as_completed loop, and
\* the output is written.
C17_RunReachesReport ==
    <>(pc = "done" /\ Yielded(futures) = 1..Len(futures) /\ output_file # <<>>)

C17_Witness ==
    /\ pc = "done"
    /\ Len(futures) >= 4
    /\ Yielded(futures) = 1..Len(futures)
    /\ dead_count >= 1
    /\ Len(live_streams) >= 1

\* C18: live_streams and dead_count change only in a step of main() in
\* its as_completed loop or after it, never in a step of a worker; each
\* result taken from as_completed adds exactly one to one of the two, so
\* that while collecting the two add up to the number of results taken,
\* and at the end the kept records that were probed plus dead_count equal
\* the number of calls submitted.
AccumulatorsCountYielded ==
    /\ pc \in {"submit", "collect"} =>
          Len(live_streams) + dead_count = Cardinality(Yielded(futures))
    /\ pc = "done" =>
          Len(live_streams) - Len(Unchecked(unique_streams, streams_to_check))
              + dead_count = Len(futures)

AccumulatorsWrittenByMain ==
    << live_streams, dead_count >>' # << live_streams, dead_count >> =>
        /\ pc = "collect"
        /\ \/ pc' = "done" /\ dead_count' = dead_count
           \/ /\ Cardinality(Yielded(futures')) = Cardinality(Yielded(futures)) + 1
              /\ Len(live_streams') + dead_count' = Len(live_streams) + dead_count + 1

C18_AccumulatorsSingleWriter ==
    []AccumulatorsCountYielded /\ [][AccumulatorsWrittenByMain]_vars

C18_Witness ==
    /\ pc = "collect"
    /\ Yielded(futures) = 1..Len(futures)
    /\ Running(futures) = {}
    /\ dead_count >= 2
    /\ Len(live_streams) >= 2

\* C19: each unique record is submitted to the executor at most once, and
\* each call of check_url sends at most one request.
C19_SubmittedAtMostOnce ==
    /\ \A r \in Range(unique_streams) :
          Cardinality({f \in 1..Len(futures) : futures[f].stream = r}) <= 1
    /\ \A f \in 1..Len(futures) : futures[f].requests <= 1

\* C20: parse_m3u applied to the text written to combined.m3u returns the
\* kept records, in the order they were written.
C20_PlaylistParsesBackToKept ==
    pc = "done" => parse_m3u(Flatten(output_file)) = live_streams

C20_Witness ==
    /\ pc = "done"
    /\ Len(live_streams) >= 3
    /\ Cardinality(Range(live_streams)) >= 3
    /\ Len(output_file) = Len(OutputHeader) + 2 * Len(live_streams)

=============================================================================
